---- MODULE Spec2Model ----
(***************************************************************************)
(* Model of the DUSB custom USB device (src/dusb.c): the control           *)
(* dispatcher dusb_handle_control, the data engine dusb_handle_data, the   *)
(* periodic IN producer dusb_in_timer, the wakeup scheduler                *)
(* dusb_wakeup_timer and dusb_handle_reset, acting on one DUSBState.       *)
(*                                                                         *)
(* Every handler is one atomic action (the host runtime serialises them).  *)
(* The timer service is outside src/: it is modelled as a queue with one   *)
(* slot per timer (in_timer_pending) plus the expiry it has already        *)
(* dispatched but whose callback has not run yet (in_tick_queued), which   *)
(* timer_del can no longer recall.                                         *)
(*                                                                         *)
(* A staging buffer is written by dusb_in_timer alone, always from offset   *)
(* 0 and always with the pattern of its own endpoint, so its 1024 bytes    *)
(* are determined by the counter value of the tick that filled it: the     *)
(* state holds that value and InDataBuf expands it to the bytes.           *)
(*                                                                         *)
(* The control request word is decoded as the code decodes it:             *)
(* bmRequestType in the low byte, bRequest in the next byte.               *)
(***************************************************************************)
EXTENDS Integers, Sequences, FiniteSets, TLC

VARIABLES
    alt,              \* s->alt[1]            : [0..0 -> 0..255]
    in_data,          \* s->in_data[3][1024], each buffer held as the value of
                      \* current_in_ep at the tick that filled it (Zeroed:
                      \* never filled) and the stores that hit it from outside
                      \* since; InDataBuf gives its 1024 bytes
    in_data_len,      \* s->in_data_len[3]    : [0..2 -> Int]
    current_in_ep,    \* s->current_in_ep     : int counter
    halted,           \* endpoint->halted for every endpoint the lookup knows
    addr,             \* dev->addr
    configuration,    \* dev->configuration
    remote_wakeup,    \* dev->remote_wakeup   : 0 or 1
    in_timer_pending, \* s->in_timer is armed in the timer service
    in_tick_queued,   \* an expiry of in_timer is dispatched, callback not yet run
    wakeup_timer_pending, \* s->wakeup_timer is armed in the timer service
    speed,            \* dev->speed          : the negotiated link speed
    port,             \* dev->port != NULL   : the device is attached to a port
    op,               \* the operation that ran last, with its inputs
    p                 \* the USBPacket of the last transfer: status, actual_length, data

vars == <<alt, in_data, in_data_len, current_in_ep, halted, addr, configuration,
          remote_wakeup, in_timer_pending, in_tick_queued, wakeup_timer_pending,
          speed, port, op, p>>

\* what the bus and the wakeup scheduler own
bus_vars == <<wakeup_timer_pending, speed, port>>

dev_vars == <<alt, in_data, in_data_len, current_in_ep, halted, addr, configuration,
              remote_wakeup, in_timer_pending, in_tick_queued, wakeup_timer_pending,
              speed, port>>

-----------------------------------------------------------------------------
(* Bounds of the model *)

\* The IN producer stages at most MaxTicks payloads (caps current_in_ep).
MaxTicks == 3
\* SET_INTERFACE values offered by the host: 0..MaxAlt.
MaxAlt == 2
\* Largest wLength / host buffer size offered on GET_DESCRIPTOR(BOS).
MaxLength == 23

-----------------------------------------------------------------------------
(* Program constants *)

\* int current_in_ep, int in_data_len[3]: 32-bit two's complement
INT_MAX == 2147483647
INT_MIN == -INT_MAX - 1
SIZEOF_INT == 4

NUM_IN_EPS == 3
IN_BUF_SIZE == 1024
INT_DATA_LEN == 64
ISO_DATA_LEN == 1024
BULK_DATA_LEN == 1024

USB_REQ_GET_STATUS == 0
USB_REQ_CLEAR_FEATURE == 1
USB_REQ_SET_FEATURE == 3
USB_REQ_SET_ADDRESS == 5
USB_REQ_GET_DESCRIPTOR == 6
USB_REQ_SET_CONFIGURATION == 9
USB_REQ_GET_INTERFACE == 10
USB_REQ_SET_INTERFACE == 11
USB_REQ_SET_SEL == 48

USB_RECIP_DEVICE == 0
USB_RECIP_INTERFACE == 1
USB_RECIP_ENDPOINT == 2
USB_RECIP_OTHER == 3
USB_RECIP_MASK == 31
USB_DIR_OUT == 0
USB_DIR_IN == 128

USB_DEVICE_REMOTE_WAKEUP == 1
USB_DT_DEVICE == 1
USB_DT_BOS == 15
USB_DT_DEVICE_CAPABILITY == 16
USB_DEV_CAP_USB2_EXT == 2
USB_DEV_CAP_SUPERSPEED == 3

USB_TOKEN_IN == "IN"
USB_TOKEN_OUT == "OUT"

USB_SPEED_FULL == "FULL"
USB_SPEED_HIGH == "HIGH"
USB_SPEED_SUPER == "SUPER"

USB_RET_SUCCESS == "SUCCESS"
USB_RET_NAK == "NAK"
USB_RET_STALL == "STALL"

\* bos_descriptor[]: 5-byte header, 7-byte USB 2.0 extension, 10-byte SuperSpeed
bos_descriptor ==
    << 5, USB_DT_BOS, 22, 0, 2,
       7, USB_DT_DEVICE_CAPABILITY, USB_DEV_CAP_USB2_EXT, 2,
       0, 0, 0,
       10, USB_DT_DEVICE_CAPABILITY, USB_DEV_CAP_SUPERSPEED,
       0, 14, 0, 1, 10, 255, 7 >>

-----------------------------------------------------------------------------
(* Helpers *)

MIN(a, b) == IF a < b THEN a ELSE b

\* C's % : the remainder has the sign of the dividend
CRem(a, b) == IF a >= 0 \/ a % b = 0 THEN a % b ELSE (a % b) - b

\* a value stored into a uint8_t
U8(x) == x % 256

ZeroLens == [i \in 0..(NUM_IN_EPS - 1) |-> 0]

\* a staging buffer no tick has filled since memset(s->in_data, 0, ...)
Zeroed == [filled |-> FALSE, stamp |-> 0, hit |-> {}]

\* a staging buffer filled by the tick that ran with the counter at cur
Filled(cur) == [filled |-> TRUE, stamp |-> cur, hit |-> {}]

\* Offsets into a packet buffer / descriptor copy: the first n bytes of buf
Prefix(buf, n) == [i \in 1..n |-> buf[i]]

\* the first n bytes of one staging buffer (a C array indexed from 0)
BufPrefix(b, n) == [i \in 1..n |-> b[i - 1]]

-----------------------------------------------------------------------------
(* Endpoints *)

Tokens == {USB_TOKEN_IN, USB_TOKEN_OUT}

NoEp == <<"none", 0>>

\* the first endpoint number behind the three functional endpoints
OtherEp == NUM_IN_EPS + 1

\* the endpoints the host runtime holds, one per (direction, number): control
\* endpoint 0, the functional endpoints 1..3 and one the device does not use
KnownEps == Tokens \X (0..OtherEp)

\* usb_ep_get(dev, pid, ep): the endpoint, or absent
usb_ep_get(pid, ep) == IF <<pid, ep>> \in KnownEps THEN <<pid, ep>> ELSE NoEp

-----------------------------------------------------------------------------
(* The packet and the record of the last operation *)

\* a packet as the host hands it to a handler
NewPacket == [status |-> USB_RET_SUCCESS, actual_length |-> 0, data |-> <<>>]

NoOp == [kind |-> "init", request |-> 0, value |-> 0, index |-> 0, length |-> 0,
         ep |-> 0, pid |-> "none", size |-> 0, wakeup |-> FALSE]

ControlOp(request, value, index, length) ==
    [NoOp EXCEPT !.kind = "control", !.request = request, !.value = value,
                 !.index = index, !.length = length]

DataOp(ep_num, pid, size) ==
    [NoOp EXCEPT !.kind = "data", !.ep = ep_num, !.pid = pid, !.size = size]

-----------------------------------------------------------------------------
(* Timer service: timer_mod arms the timer, timer_del takes it off the queue *)

timer_mod(pending) == TRUE

timer_del(pending) == FALSE

-----------------------------------------------------------------------------
(* Accesses outside in_data_len[3] *)

\* s->in_data_len[idx] with idx outside 0..2 is an access outside the array:
\* undefined behaviour.  DUSBState declares in_data[3][1024] right before
\* in_data_len[3] and current_in_ep right behind it.  In a build that lays the
\* fields out in that order in_data_len[3] is the counter, and in_data_len[k]
\* with k < 0 are SIZEOF_INT bytes of the staging buffers, counted back from
\* the end of in_data[2] ("aliased").  The other outcome modelled is an access
\* that touches nothing the device uses ("stray"; a load yields 0).
OobAliased(idx) ==
    \/ idx = NUM_IN_EPS
    \/ idx < 0 /\ idx >= -((NUM_IN_EPS * IN_BUF_SIZE) \div SIZEOF_INT)

OobOutcomes(idx) == IF OobAliased(idx) THEN {"aliased", "stray"} ELSE {"stray"}

\* the staging buffer in_data_len[idx], idx < 0, lies in
OobSlot(idx) == (NUM_IN_EPS * IN_BUF_SIZE + SIZEOF_INT * idx) \div IN_BUF_SIZE

\* the offsets of that buffer in_data_len[idx], idx < 0, occupies
OobBytes(idx) ==
    LET first == (NUM_IN_EPS * IN_BUF_SIZE + SIZEOF_INT * idx) % IN_BUF_SIZE
    IN  first..(first + SIZEOF_INT - 1)

-----------------------------------------------------------------------------
(* dusb_in_timer *)

\* mutant: the callback trusts the state at schedule time
InTimerActive_NoRecheck(a) == TRUE

\* if (s->alt[0] == 1): the callback re-checks the alternate setting when it runs
InTimerActive(a) == a = 1

\* mutant: the round robin starts one endpoint late
TickEp_Shifted(cur) == CRem(cur + 1, 3) + 1

\* int ep = (s->current_in_ep % 3) + 1
TickEp(cur) == CRem(cur, 3) + 1

\* data_len of the switch on ep
TickDataLen(ep) ==
    CASE ep = 1 -> INT_DATA_LEN
      [] ep = 2 -> ISO_DATA_LEN
      [] ep = 3 -> BULK_DATA_LEN
      [] OTHER  -> 0

\* the byte pattern written at offset i >= 1: (i + cur) % 256, (i * cur) % 256
\* and i % 256 stored into a uint8_t.  The int sum and product wrap at 32
\* bits, so the byte stored depends on the low 8 bits of cur only.
TickByte(ep, i, cur) ==
    CASE ep = 1 -> U8(i + U8(cur))
      [] ep = 2 -> U8(i * U8(cur))
      [] OTHER  -> U8(i)

\* the staging buffer of ep after the switch wrote data_len bytes into the
\* buffer; the bytes behind data_len are still those of realize's memset
TickPayload(ep, cur) ==
    [i \in 0..(IN_BUF_SIZE - 1) |->
        IF i >= TickDataLen(ep) THEN 0
        ELSE IF i = 0 THEN U8(ep)
        ELSE TickByte(ep, i, cur)]

\* the bytes of s->in_data[slot]: the pattern of the tick that filled it, with
\* 0 wherever a store of in_data_len[k] = 0, k < 0, has hit it since
InDataBuf(slot, buf) ==
    LET base == IF buf.filled
                THEN TickPayload(slot + 1, buf.stamp)
                ELSE [i \in 0..(IN_BUF_SIZE - 1) |-> 0]
    IN  IF buf.hit = {} THEN base
        ELSE [i \in 0..(IN_BUF_SIZE - 1) |->
                IF \E k \in buf.hit : i \in OobBytes(k) THEN 0 ELSE base[i]]

\* s->in_data_len[idx] = data_len
TickStore(lens, idx, data_len) == [lens EXCEPT ![idx] = data_len]

\* the staging buffers after s->in_data_len[idx] = 0 with idx < 0 has hit them
TickHit(bufs, idx) ==
    LET slot == OobSlot(idx)
    IN  IF bufs[slot].filled
        THEN [bufs EXCEPT ![slot].hit = @ \cup {idx}]
        ELSE bufs

\* s->current_in_ep++ on an int; QEMU is built with -fwrapv, which makes the
\* increment of INT_MAX wrap to INT_MIN
TickAdvance(cur) == IF cur = INT_MAX THEN INT_MIN ELSE cur + 1

\* The counter values whose ticks the model follows: the first MaxTicks after
\* realize, the last MaxTicks before the counter wraps and the first MaxTicks
\* after it.
TickModelled(cur) ==
    \/ cur >= 0 /\ cur < MaxTicks
    \/ cur > INT_MAX - MaxTicks
    \/ cur < INT_MIN + MaxTicks

InTimer ==
    /\ in_tick_queued
    /\ InTimerActive(alt[0]) => TickModelled(current_in_ep)
    /\ in_tick_queued' = FALSE
    /\ IF InTimerActive(alt[0])
       THEN LET ep  == TickEp(current_in_ep)
                idx == ep - 1
            IN  /\ IF idx \in DOMAIN in_data_len
                   THEN /\ in_data' = [in_data EXCEPT ![idx] = Filled(current_in_ep)]
                        /\ in_data_len' = TickStore(in_data_len, idx, TickDataLen(ep))
                   ELSE \* default: no buffer is written, data_len = 0 is stored
                        \* outside in_data_len
                        /\ \E outcome \in OobOutcomes(idx) :
                              in_data' = IF outcome = "aliased"
                                         THEN TickHit(in_data, idx)
                                         ELSE in_data
                        /\ UNCHANGED in_data_len
                /\ current_in_ep' = TickAdvance(current_in_ep)
       ELSE UNCHANGED <<in_data, in_data_len, current_in_ep>>
    /\ in_timer_pending' = timer_mod(in_timer_pending)
    /\ op' = [NoOp EXCEPT !.kind = "in_timer"]
    /\ UNCHANGED <<alt, halted, addr, configuration, remote_wakeup, p>>
    /\ UNCHANGED bus_vars

\* the timer service takes the armed in_timer off its queue and dispatches the
\* callback; the callback runs in a later step
InTimerExpire ==
    /\ in_timer_pending
    /\ ~in_tick_queued
    /\ in_timer_pending' = FALSE
    /\ in_tick_queued' = TRUE
    /\ op' = [NoOp EXCEPT !.kind = "in_expire"]
    /\ UNCHANGED <<alt, in_data, in_data_len, current_in_ep, halted, addr,
                   configuration, remote_wakeup, p>>
    /\ UNCHANGED bus_vars

-----------------------------------------------------------------------------
(* dusb_wakeup_timer *)

\* mutant: the wakeup is sent whenever the device is attached
WakeupDue_Attached(rw, attached) == attached

\* if (dev->remote_wakeup && dev->port)
WakeupDue(rw, attached) == rw # 0 /\ attached

\* mutant: the callback re-arms its timer only after it sent a wakeup
WakeupRearm_WhenSent(sent, pending) == IF sent THEN timer_mod(pending) ELSE pending

\* timer_mod(s->wakeup_timer, ...) as the last statement, whatever was sent
WakeupRearm(sent, pending) == timer_mod(pending)

\* The timer service takes the expired wakeup_timer off its queue and runs the
\* callback.  No handler calls timer_del on this timer, so no cancellation can
\* come between the expiry and the callback: the two are one step.
WakeupTimer ==
    /\ wakeup_timer_pending
    /\ LET ep   == usb_ep_get(USB_TOKEN_IN, 1)
           sent == WakeupDue(remote_wakeup, port) /\ ep # NoEp
       IN  /\ op' = [NoOp EXCEPT !.kind = "wakeup_timer", !.wakeup = sent]
           /\ wakeup_timer_pending' = WakeupRearm(sent, timer_del(wakeup_timer_pending))
    /\ UNCHANGED <<alt, in_data, in_data_len, current_in_ep, halted, addr,
                   configuration, remote_wakeup, in_timer_pending, in_tick_queued,
                   speed, port, p>>

-----------------------------------------------------------------------------
(* The bus: attach and detach, done by the host runtime *)

\* link speeds of the ports the device can be plugged into
PortSpeeds == {USB_SPEED_FULL, USB_SPEED_HIGH, USB_SPEED_SUPER}

\* usb_desc_attach: the fastest speed both the port and the descriptor trees
\* support; desc has a full, a high and a super tree, so it is the port's speed
usb_desc_attach(portspeed) == portspeed

\* the host plugs the device into a port and negotiates the link speed
Attach(portspeed) ==
    /\ ~port
    /\ port' = TRUE
    /\ speed' = usb_desc_attach(portspeed)
    /\ op' = [NoOp EXCEPT !.kind = "attach"]
    /\ UNCHANGED <<alt, in_data, in_data_len, current_in_ep, halted, addr,
                   configuration, remote_wakeup, in_timer_pending, in_tick_queued,
                   wakeup_timer_pending, p>>

\* the host takes the device off its port
Detach ==
    /\ port
    /\ port' = FALSE
    /\ op' = [NoOp EXCEPT !.kind = "detach"]
    /\ UNCHANGED <<alt, in_data, in_data_len, current_in_ep, halted, addr,
                   configuration, remote_wakeup, in_timer_pending, in_tick_queued,
                   wakeup_timer_pending, speed, p>>

-----------------------------------------------------------------------------
(* dusb_handle_control *)

\* the request word as the handler decodes it
MkRequest(bRequest, bmRequestType) == bRequest * 256 + bmRequestType

\* int bmRequestType = request & 0xff
BmRequestType(request) == request % 256

\* int bRequest = (request >> 8) & 0xff
BRequest(request) == (request \div 256) % 256

\* int recipient = bmRequestType & USB_RECIP_MASK
Recipient(request) == BmRequestType(request) % (USB_RECIP_MASK + 1)

\* int direction = bmRequestType & USB_DIR_IN
Direction(request) == ((BmRequestType(request) \div USB_DIR_IN) % 2) * USB_DIR_IN

\* value >> 8
DescType(value) == value \div 256

\* int ep = index & 0x0f
IndexEp(index) == index % 16

\* int dir = (index & 0x80) ? USB_TOKEN_IN : USB_TOKEN_OUT
IndexDir(index) == IF (index \div 128) % 2 = 1 THEN USB_TOKEN_IN ELSE USB_TOKEN_OUT

\* mutant: the whole descriptor is copied whatever the buffer length
BosCopyLen_NoClip(len) == Len(bos_descriptor)

\* int copy_len = MIN(len, sizeof(bos_descriptor))
BosCopyLen(len) == MIN(len, Len(bos_descriptor))

\* dusb_handle_bos_descriptor: the bytes copied into data, or -1
dusb_handle_bos_descriptor(value, len) ==
    IF DescType(value) = USB_DT_BOS
    THEN [ret |-> BosCopyLen(len), data |-> Prefix(bos_descriptor, BosCopyLen(len))]
    ELSE [ret |-> -1, data |-> <<>>]

\* usb_desc_handle_control: the standard-request resolver of the host runtime.
\* It serves the standard descriptors and applies SET_ADDRESS and
\* SET_CONFIGURATION; everything else is not handled (ret = -1).
usb_desc_handle_control(request, value, index, length) ==
    LET none == [ret |-> -1, addr |-> addr, configuration |-> configuration]
    IN  IF Recipient(request) # USB_RECIP_DEVICE THEN none
        ELSE IF BRequest(request) = USB_REQ_GET_DESCRIPTOR
                /\ Direction(request) = USB_DIR_IN
                /\ DescType(value) = USB_DT_DEVICE
        THEN [none EXCEPT !.ret = MIN(length, 18)]
        ELSE IF BRequest(request) = USB_REQ_SET_ADDRESS
                /\ Direction(request) = USB_DIR_OUT
        THEN [none EXCEPT !.ret = 0, !.addr = value]
        ELSE IF BRequest(request) = USB_REQ_SET_CONFIGURATION
                /\ Direction(request) = USB_DIR_OUT
        THEN [none EXCEPT !.ret = 0, !.configuration = value]
        ELSE none

\* mutant: GET_STATUS(endpoint) always reports "not halted"
HaltStatusByte_Zero(h) == 0

\* data[0] = endpoint->halted ? 1 : 0
HaltStatusByte(h) == IF h THEN 1 ELSE 0

\* data[0] = (dev->remote_wakeup << 1) | 0
DeviceStatusByte(rw) == rw * 2

\* endpoint->halted = true / false on the endpoint looked up
SetHalted(h, e, v) == [h EXCEPT ![e] = v]

\* mutant: off by one in the range check
SetInterfaceValid_OffByOne(value) == value <= 2

\* if (value < 2)
SetInterfaceValid(value) == value < 2

\* mutant: alt 0 forgets the memset
SetInterfaceLens_NoClear(value, lens) == lens

\* SET_INTERFACE: alt 1 keeps the staged lengths, alt 0 memsets them
SetInterfaceLens(value, lens) == IF value = 1 THEN lens ELSE ZeroLens

\* SET_INTERFACE: alt 1 arms in_timer, alt 0 deletes it
SetInterfaceTimer(value, pending) ==
    IF value = 1 THEN timer_mod(pending) ELSE timer_del(pending)

\* mutant: SET_SEL is accepted whatever its length
SetSelValid_AnyLength(recipient, direction, length) ==
    recipient = USB_RECIP_DEVICE /\ direction = USB_DIR_OUT

\* if (recipient == USB_RECIP_DEVICE && direction == USB_DIR_OUT && length == 6)
SetSelValid(recipient, direction, length) ==
    recipient = USB_RECIP_DEVICE /\ direction = USB_DIR_OUT /\ length = 6

\* The switch (bRequest) of dusb_handle_control: what it leaves in the packet
\* and in the device state.  fail = TRUE is the `goto fail` path.
CustomRequest(request, value, index, length) ==
    LET bRequest  == BRequest(request)
        recipient == Recipient(request)
        direction == Direction(request)
        endpoint  == usb_ep_get(IndexDir(index), IndexEp(index))
        same == [fail |-> FALSE, actual_length |-> 0, data |-> <<>>,
                 alt |-> alt, lens |-> in_data_len, halted |-> halted,
                 rw |-> remote_wakeup, pending |-> in_timer_pending]
        fail == [same EXCEPT !.fail = TRUE]
    IN  CASE bRequest = USB_REQ_GET_STATUS ->
               IF recipient = USB_RECIP_DEVICE
               THEN [same EXCEPT !.actual_length = 2,
                                 !.data = <<DeviceStatusByte(remote_wakeup), 0>>]
               ELSE IF recipient = USB_RECIP_INTERFACE
               THEN [same EXCEPT !.actual_length = 2, !.data = <<0, 0>>]
               ELSE IF recipient = USB_RECIP_ENDPOINT
               THEN IF endpoint # NoEp
                    THEN [same EXCEPT !.actual_length = 2,
                                      !.data = <<HaltStatusByte(halted[endpoint]), 0>>]
                    ELSE fail
               ELSE fail
          [] bRequest = USB_REQ_CLEAR_FEATURE ->
               IF recipient = USB_RECIP_DEVICE /\ value = USB_DEVICE_REMOTE_WAKEUP
               THEN [same EXCEPT !.rw = 0]
               ELSE IF recipient = USB_RECIP_ENDPOINT /\ value = 0
               THEN IF endpoint # NoEp
                    THEN [same EXCEPT !.halted = SetHalted(halted, endpoint, FALSE)]
                    ELSE fail
               ELSE fail
          [] bRequest = USB_REQ_SET_FEATURE ->
               IF recipient = USB_RECIP_DEVICE /\ value = USB_DEVICE_REMOTE_WAKEUP
               THEN [same EXCEPT !.rw = 1]
               ELSE IF recipient = USB_RECIP_ENDPOINT /\ value = 0
               THEN IF endpoint # NoEp
                    THEN [same EXCEPT !.halted = SetHalted(halted, endpoint, TRUE)]
                    ELSE fail
               ELSE fail
          [] bRequest = USB_REQ_SET_INTERFACE ->
               IF recipient = USB_RECIP_INTERFACE /\ index = 0
               THEN IF SetInterfaceValid(value)
                    THEN [same EXCEPT !.alt = [alt EXCEPT ![0] = U8(value)],
                                      !.pending = SetInterfaceTimer(value, in_timer_pending),
                                      !.lens = SetInterfaceLens(value, in_data_len)]
                    ELSE fail
               ELSE fail
          [] bRequest = USB_REQ_SET_SEL ->
               IF SetSelValid(recipient, direction, length)
               THEN same
               ELSE fail
          [] OTHER -> fail

\* mutant: the resolver's answer is ignored and the switch decides
Delegated_Never(ret) == FALSE

\* if (ret >= 0) return: the resolver handled the request
Delegated(ret) == ret >= 0

HandleControl(request, value, index, length) ==
    LET bos == dusb_handle_bos_descriptor(value, length)
        std == usb_desc_handle_control(request, value, index, length)
        cus == CustomRequest(request, value, index, length)
    IN  /\ op' = ControlOp(request, value, index, length)
        /\ UNCHANGED <<in_data, current_in_ep, in_tick_queued>>
        /\ UNCHANGED bus_vars
        /\ IF BRequest(request) = USB_REQ_GET_DESCRIPTOR
              /\ DescType(value) = USB_DT_BOS /\ bos.ret >= 0
           THEN /\ p' = [NewPacket EXCEPT !.actual_length = bos.ret, !.data = bos.data]
                /\ UNCHANGED <<alt, in_data_len, halted, addr, configuration,
                               remote_wakeup, in_timer_pending>>
           ELSE IF Delegated(std.ret)
           THEN /\ p' = [NewPacket EXCEPT !.actual_length = std.ret]
                /\ addr' = std.addr
                /\ configuration' = std.configuration
                /\ UNCHANGED <<alt, in_data_len, halted, remote_wakeup,
                               in_timer_pending>>
           ELSE /\ p' = IF cus.fail
                        THEN [NewPacket EXCEPT !.status = USB_RET_STALL]
                        ELSE [NewPacket EXCEPT !.actual_length = cus.actual_length,
                                               !.data = cus.data]
                /\ alt' = cus.alt
                /\ in_data_len' = cus.lens
                /\ halted' = cus.halted
                /\ remote_wakeup' = cus.rw
                /\ in_timer_pending' = cus.pending
                /\ UNCHANGED <<addr, configuration>>

-----------------------------------------------------------------------------
(* dusb_handle_data *)

\* mutant: OUT is allowed in every alternate setting
ep_allowed_OutAlways(in, a) == (in /\ a = 1) \/ ~in

\* bool ep_allowed = (in && s->alt[0] == 1) || (!in && s->alt[0] == 0)
ep_allowed(in, a) == (in /\ a = 1) \/ (~in /\ a = 0)

\* mutant: the halt flag is not looked at
DataHalted_Ignored(h, e) == FALSE

\* if (ep->halted) STALL
DataHalted(h, e) == h[e]

\* if (ep_num >= 1 && ep_num <= 3 && !ep_allowed) STALL
DataGated(ep_num, in, a) == ep_num >= 1 /\ ep_num <= 3 /\ ~ep_allowed(in, a)

\* size_t len = MIN(p->iov.size, s->in_data_len[idx])
InCopyLen(size, valid_len) == MIN(size, valid_len)

\* mutant: a served payload stays staged
InConsume_Keep(lens, idx) == lens

\* s->in_data_len[idx] = 0 after a served IN read
InConsume(lens, idx) == [lens EXCEPT ![idx] = 0]

\* int idx = ep_num - 1
InSlot(ep_num) == ep_num - 1

\* the value the load of in_data_len[idx] yields, idx outside 0..2
OobLen(idx, outcome, cur) == IF outcome = "aliased" THEN cur ELSE 0

\* a byte copied from behind the staging buffers
StrayByte == -1

\* usb_packet_copy(p, s->in_data[idx], len) with idx outside 0..2
OobData(len) == [i \in 1..len |-> StrayByte]

HandleData(ep_num, pid, size) ==
    LET in  == (pid = USB_TOKEN_IN)
        e   == <<pid, ep_num>>
        idx == InSlot(ep_num)
    IN  /\ op' = DataOp(ep_num, pid, size)
        /\ UNCHANGED <<alt, in_data, halted, addr, configuration,
                       remote_wakeup, in_timer_pending, in_tick_queued>>
        /\ UNCHANGED bus_vars
        /\ IF DataHalted(halted, e)
           THEN /\ p' = [NewPacket EXCEPT !.status = USB_RET_STALL]
                /\ UNCHANGED <<in_data_len, current_in_ep>>
           ELSE IF DataGated(ep_num, in, alt[0])
           THEN /\ p' = [NewPacket EXCEPT !.status = USB_RET_STALL]
                /\ UNCHANGED <<in_data_len, current_in_ep>>
           ELSE IF ~in
           THEN /\ p' = [NewPacket EXCEPT !.actual_length = size,
                                          !.status = USB_RET_SUCCESS]
                /\ UNCHANGED <<in_data_len, current_in_ep>>
           ELSE IF idx \in DOMAIN in_data_len
           THEN /\ UNCHANGED current_in_ep
                /\ IF in_data_len[idx] > 0
                   THEN LET len == InCopyLen(size, in_data_len[idx])
                        IN  /\ p' = [status |-> USB_RET_SUCCESS, actual_length |-> len,
                                     data |-> BufPrefix(InDataBuf(idx, in_data[idx]), len)]
                            /\ in_data_len' = InConsume(in_data_len, idx)
                   ELSE /\ p' = [NewPacket EXCEPT !.status = USB_RET_NAK]
                        /\ UNCHANGED in_data_len
           ELSE \E outcome \in OobOutcomes(idx) :
                  LET valid == OobLen(idx, outcome, current_in_ep)
                      len   == InCopyLen(size, valid)
                  IN  /\ UNCHANGED in_data_len
                      /\ IF valid > 0
                         THEN /\ p' = [status |-> USB_RET_SUCCESS, actual_length |-> len,
                                       data |-> OobData(len)]
                              \* s->in_data_len[idx] = 0 lands on the counter
                              /\ current_in_ep' = 0
                         ELSE /\ p' = [NewPacket EXCEPT !.status = USB_RET_NAK]
                              /\ UNCHANGED current_in_ep

-----------------------------------------------------------------------------
(* dusb_handle_reset *)

ResetAlt(a) == [i \in DOMAIN a |-> 0]

\* mutant: reset leaves the staged lengths alone
ResetLens_Keep(lens) == lens

\* memset(s->in_data_len, 0, sizeof(s->in_data_len))
ResetLens(lens) == [i \in DOMAIN lens |-> 0]

\* mutant: reset forgets dev->remote_wakeup
ResetRemoteWakeup_Keep(rw) == rw

ResetRemoteWakeup(rw) == 0

\* mutant: reset takes every halt back
ResetHalted_Clear(h) == [e \in DOMAIN h |-> FALSE]

\* dusb_handle_reset has no statement on an endpoint's halted flag
ResetHalted(h) == h

HandleReset ==
    /\ addr' = 0
    /\ configuration' = 0
    /\ remote_wakeup' = ResetRemoteWakeup(remote_wakeup)
    /\ alt' = ResetAlt(alt)
    /\ in_timer_pending' = timer_del(in_timer_pending)
    /\ in_data_len' = ResetLens(in_data_len)
    /\ halted' = ResetHalted(halted)
    /\ op' = [NoOp EXCEPT !.kind = "reset"]
    /\ UNCHANGED <<in_data, current_in_ep, in_tick_queued, p>>
    /\ UNCHANGED bus_vars

-----------------------------------------------------------------------------
(* What the host sends *)

\* wIndex of endpoint n in direction pid
EpIndex(pid, n) == IF pid = USB_TOKEN_IN THEN USB_DIR_IN + n ELSE n

\* endpoints addressed by control requests: an IN endpoint, an OUT endpoint and
\* one the lookup does not know
EpIndexes == {EpIndex(USB_TOKEN_IN, 1), EpIndex(USB_TOKEN_OUT, 2),
              EpIndex(USB_TOKEN_IN, OtherEp + 1)}

\* host buffer sizes of data transfers
IovSizes == {0, INT_DATA_LEN, IN_BUF_SIZE + 1}

\* wLength of GET_DESCRIPTOR(BOS)
BosLengths == {0, 5, Len(bos_descriptor), MaxLength}

\* endpoint numbers of data transfers of a host that keeps to the endpoints
\* the descriptors declare
DataEps == 1..NUM_IN_EPS

\* endpoint numbers of data transfers of a host that also uses the endpoint
\* behind them (endpoint 0 carries control transfers only)
AnyDataEps == 1..OtherEp

ControlInputs ==
    \* GET_STATUS: device, interface, endpoint, other recipient
    {<<MkRequest(USB_REQ_GET_STATUS, USB_DIR_IN + r), 0, 0, 2>> :
        r \in {USB_RECIP_DEVICE, USB_RECIP_INTERFACE, USB_RECIP_OTHER}}
    \cup {<<MkRequest(USB_REQ_GET_STATUS, USB_DIR_IN + USB_RECIP_ENDPOINT), 0, i, 2>> :
            i \in EpIndexes}
    \* CLEAR_FEATURE / SET_FEATURE: remote wakeup, endpoint halt, bad value
    \cup {<<MkRequest(b, USB_RECIP_DEVICE), v, 0, 0>> :
            b \in {USB_REQ_CLEAR_FEATURE, USB_REQ_SET_FEATURE},
            v \in {USB_DEVICE_REMOTE_WAKEUP}}
    \cup {<<MkRequest(b, USB_RECIP_ENDPOINT), 0, i, 0>> :
            b \in {USB_REQ_CLEAR_FEATURE, USB_REQ_SET_FEATURE}, i \in EpIndexes}
    \cup {<<MkRequest(USB_REQ_SET_FEATURE, USB_RECIP_ENDPOINT), 1, EpIndex(USB_TOKEN_IN, 1), 0>>,
          <<MkRequest(USB_REQ_CLEAR_FEATURE, USB_RECIP_DEVICE), 2, 0, 0>>}
    \* SET_INTERFACE: interface 0 with every offered value, interface 1
    \cup {<<MkRequest(USB_REQ_SET_INTERFACE, USB_RECIP_INTERFACE), v, 0, 0>> :
            v \in 0..MaxAlt}
    \cup {<<MkRequest(USB_REQ_SET_INTERFACE, USB_RECIP_INTERFACE), 1, 1, 0>>,
          <<MkRequest(USB_REQ_SET_INTERFACE, USB_RECIP_DEVICE), 1, 0, 0>>}
    \* SET_SEL
    \cup {<<MkRequest(USB_REQ_SET_SEL, USB_RECIP_DEVICE), 0, 0, l>> : l \in {5, 6}}
    \* SET_ADDRESS, SET_CONFIGURATION
    \cup {<<MkRequest(USB_REQ_SET_ADDRESS, USB_RECIP_DEVICE), 5, 0, 0>>,
          <<MkRequest(USB_REQ_SET_CONFIGURATION, USB_RECIP_DEVICE), 1, 0, 0>>}
    \* GET_DESCRIPTOR: BOS and device
    \cup {<<MkRequest(USB_REQ_GET_DESCRIPTOR, USB_DIR_IN + USB_RECIP_DEVICE),
            USB_DT_BOS * 256, 0, l>> : l \in BosLengths}
    \cup {<<MkRequest(USB_REQ_GET_DESCRIPTOR, USB_DIR_IN + USB_RECIP_DEVICE),
            USB_DT_DEVICE * 256, 0, 18>>}
    \* a request the switch has no case for
    \cup {<<MkRequest(USB_REQ_GET_INTERFACE, USB_DIR_IN + USB_RECIP_INTERFACE), 0, 0, 1>>}

-----------------------------------------------------------------------------
(* The state after dusb_realize *)

Init ==
    /\ alt = [i \in {0} |-> 0]
    /\ in_data = [e \in 0..(NUM_IN_EPS - 1) |-> Zeroed]
    /\ in_data_len = ZeroLens
    /\ current_in_ep = 0
    /\ halted = [e \in KnownEps |-> FALSE]
    /\ addr = 0
    /\ configuration = 0
    /\ remote_wakeup = 0
    /\ in_timer_pending = FALSE
    /\ in_tick_queued = FALSE
    /\ wakeup_timer_pending = timer_mod(FALSE)
    /\ speed = USB_SPEED_SUPER
    /\ port = FALSE
    /\ op = NoOp
    /\ p = NewPacket

\* the shape of DUSBState and of the USBDevice fields the handlers use
TypeOK ==
    /\ alt \in [{0} -> 0..255]
    /\ DOMAIN in_data = 0..(NUM_IN_EPS - 1)
    /\ \A m \in DOMAIN in_data :
          /\ in_data[m].filled \in BOOLEAN
          /\ in_data[m].stamp >= INT_MIN /\ in_data[m].stamp <= INT_MAX
          /\ in_data[m].hit \subseteq {-2, -1}
    /\ in_data_len \in [0..(NUM_IN_EPS - 1) -> 0..IN_BUF_SIZE]
    /\ current_in_ep >= INT_MIN /\ current_in_ep <= INT_MAX
    /\ \/ TickModelled(current_in_ep)
       \/ current_in_ep = MaxTicks
       \/ current_in_ep = INT_MIN + MaxTicks
    /\ halted \in [KnownEps -> BOOLEAN]
    /\ addr \in 0..127
    /\ configuration \in 0..255
    /\ remote_wakeup \in {0, 1}
    /\ in_timer_pending \in BOOLEAN
    /\ in_tick_queued \in BOOLEAN
    /\ wakeup_timer_pending \in BOOLEAN
    /\ speed \in {USB_SPEED_FULL, USB_SPEED_HIGH, USB_SPEED_SUPER}
    /\ port \in BOOLEAN
    /\ p.status \in {USB_RET_SUCCESS, USB_RET_NAK, USB_RET_STALL}
    /\ p.actual_length = Len(p.data) \/ p.data = <<>>

Control == \E c \in ControlInputs : HandleControl(c[1], c[2], c[3], c[4])

Data == \E ep_num \in DataEps, pid \in Tokens, size \in IovSizes :
            HandleData(ep_num, pid, size)

Next ==
    \/ Control
    \/ Data
    \/ HandleReset
    \/ InTimerExpire
    \/ InTimer

Spec == Init /\ [][Next]_vars

-----------------------------------------------------------------------------
(* A host that polls the IN endpoints: it selects alternate settings, halts
   and releases endpoint 1 IN, resets, and reads endpoints 1..3 *)

InControlInputs ==
    {<<MkRequest(USB_REQ_SET_INTERFACE, USB_RECIP_INTERFACE), v, 0, 0>> : v \in {0, 1}}
    \cup {<<MkRequest(b, USB_RECIP_ENDPOINT), 0, EpIndex(USB_TOKEN_IN, 1), 0>> :
            b \in {USB_REQ_CLEAR_FEATURE, USB_REQ_SET_FEATURE}}

InControl == \E c \in InControlInputs : HandleControl(c[1], c[2], c[3], c[4])

\* one IN read of endpoint n into a 64-byte buffer
InRead(n) == HandleData(n, USB_TOKEN_IN, INT_DATA_LEN)

InData == \E n \in DataEps : InRead(n)

InNext ==
    \/ InControl
    \/ InData
    \/ HandleReset
    \/ InTimerExpire
    \/ InTimer

\* The counter value the model takes up the ticks again at, MaxTicks ticks
\* before the counter wraps.
WrapStart == INT_MAX - MaxTicks + 1

\* The device after realize, SET_INTERFACE(0, 1) and WrapStart ticks that no
\* transfer and no reset came between: every buffer is staged by one of the
\* last three ticks and the timer is armed for the next.
WrapInit ==
    /\ alt = [i \in {0} |-> 1]
    /\ in_data = [m \in 0..(NUM_IN_EPS - 1) |->
                    Filled(CHOOSE t \in (WrapStart - NUM_IN_EPS)..(WrapStart - 1) :
                             TickEp(t) = m + 1)]
    /\ in_data_len = [m \in 0..(NUM_IN_EPS - 1) |-> TickDataLen(m + 1)]
    /\ current_in_ep = WrapStart
    /\ halted = [e \in KnownEps |-> FALSE]
    /\ addr = 0
    /\ configuration = 0
    /\ remote_wakeup = 0
    /\ in_timer_pending = timer_mod(FALSE)
    /\ in_tick_queued = FALSE
    /\ wakeup_timer_pending = timer_mod(FALSE)
    /\ speed = USB_SPEED_SUPER
    /\ port = FALSE
    /\ op = [NoOp EXCEPT !.kind = "in_timer"]
    /\ p = NewPacket

InSpec == (Init \/ WrapInit) /\ [][InNext]_vars

\* the timer service dispatches an armed in_timer and runs a dispatched
\* callback; the host keeps retrying its IN reads
FairInSpec ==
    /\ InSpec
    /\ WF_vars(InTimerExpire)
    /\ WF_vars(InTimer)
    /\ \A n \in DataEps : WF_vars(InRead(n))

-----------------------------------------------------------------------------
(* A host that sends data transfers to every endpoint the host runtime holds,
   the functional ones or not, and selects alternate settings *)

AnyEpControlInputs ==
    {<<MkRequest(USB_REQ_SET_INTERFACE, USB_RECIP_INTERFACE), v, 0, 0>> : v \in {0, 1}}
    \cup {<<MkRequest(b, USB_RECIP_ENDPOINT), 0, EpIndex(USB_TOKEN_IN, 1), 0>> :
            b \in {USB_REQ_CLEAR_FEATURE, USB_REQ_SET_FEATURE}}

AnyEpControl == \E c \in AnyEpControlInputs : HandleControl(c[1], c[2], c[3], c[4])

AnyEpData == \E ep_num \in AnyDataEps, pid \in Tokens, size \in IovSizes :
                HandleData(ep_num, pid, size)

AnyEpNext ==
    \/ AnyEpControl
    \/ AnyEpData
    \/ HandleReset
    \/ InTimerExpire
    \/ InTimer

AnyEpSpec == Init /\ [][AnyEpNext]_vars

-----------------------------------------------------------------------------
(* The device on the bus: every handler and both timers, with the host
   restricted to the requests that act on the wakeup scheduler, the link speed
   and the alternate setting *)

BusControlInputs ==
    {<<MkRequest(b, USB_RECIP_DEVICE), USB_DEVICE_REMOTE_WAKEUP, 0, 0>> :
        b \in {USB_REQ_CLEAR_FEATURE, USB_REQ_SET_FEATURE}}
    \cup {<<MkRequest(USB_REQ_SET_INTERFACE, USB_RECIP_INTERFACE), v, 0, 0>> :
            v \in {0, 1}}
    \cup {<<MkRequest(USB_REQ_GET_DESCRIPTOR, USB_DIR_IN + USB_RECIP_DEVICE),
            USB_DT_BOS * 256, 0, l>> : l \in {5, Len(bos_descriptor)}}
    \cup {<<MkRequest(USB_REQ_GET_STATUS, USB_DIR_IN + USB_RECIP_DEVICE), 0, 0, 2>>,
          <<MkRequest(USB_REQ_GET_INTERFACE, USB_DIR_IN + USB_RECIP_INTERFACE), 0, 0, 1>>}

BusControl == \E c \in BusControlInputs : HandleControl(c[1], c[2], c[3], c[4])

BusData == \E pid \in Tokens : HandleData(1, pid, INT_DATA_LEN)

BusAttach == \E portspeed \in PortSpeeds : Attach(portspeed)

BusNext ==
    \/ BusControl
    \/ BusData
    \/ HandleReset
    \/ InTimerExpire
    \/ InTimer
    \/ WakeupTimer
    \/ BusAttach
    \/ Detach

BusSpec == Init /\ [][BusNext]_vars

\* the timer service runs the callback of an armed wakeup_timer
FairBusSpec == BusSpec /\ WF_vars(WakeupTimer)

-----------------------------------------------------------------------------
(* Vocabulary of the properties *)

Slots == 0..(NUM_IN_EPS - 1)

IsData(o) == o.kind = "data"

IsInRead(o, n) == o.kind = "data" /\ o.pid = USB_TOKEN_IN /\ o.ep = n

\* the endpoint a data transfer addresses
DataEndpoint(o) == <<o.pid, o.ep>>

\* the direction of a transfer conflicts with alternate setting a
Conflicts(pid, a) ==
    \/ pid = USB_TOKEN_IN /\ a = 0
    \/ pid = USB_TOKEN_OUT /\ a = 1

\* SET_INTERFACE on interface 0
IsSetInterface0(o) ==
    /\ o.kind = "control"
    /\ o.request = 11 * 256 + 1
    /\ o.index = 0

\* GET_STATUS / CLEAR_FEATURE(HALT) / SET_FEATURE(HALT) addressed to an endpoint
IsGetStatusEp(o) == o.kind = "control" /\ o.request = 128 + 2

IsClearHalt(o) == o.kind = "control" /\ o.request = 1 * 256 + 2 /\ o.value = 0

IsSetHalt(o) == o.kind = "control" /\ o.request = 3 * 256 + 2 /\ o.value = 0

\* the (direction, number) pair wIndex names
IndexEndpoint(o) ==
    <<IF o.index >= 128 THEN USB_TOKEN_IN ELSE USB_TOKEN_OUT, o.index % 16>>

IsGetBos(o) == o.kind = "control" /\ o.request = 6 * 256 + 128 /\ o.value = 15 * 256

Smaller(a, b) == IF a <= b THEN a ELSE b

\* SET_ADDRESS / SET_CONFIGURATION addressed to the device
IsSetAddress(o) == o.kind = "control" /\ o.request = 5 * 256

IsSetConfiguration(o) == o.kind = "control" /\ o.request = 9 * 256

\* SET_FEATURE / CLEAR_FEATURE(DEVICE_REMOTE_WAKEUP) addressed to the device
IsSetRemoteWakeup(o) == o.kind = "control" /\ o.request = 3 * 256 /\ o.value = 1

IsClearRemoteWakeup(o) == o.kind = "control" /\ o.request = 1 * 256 /\ o.value = 1

\* a tick of the wakeup scheduler
IsWakeupTick(o) == o.kind = "wakeup_timer"

\* a tick of the IN producer that runs in alt 1
IsActiveTick(o, a) == o.kind = "in_timer" /\ a = 1

\* the tick that refreshes endpoint n next lies within the modelled ticks
TickAhead ==
    LET c1 == TickAdvance(current_in_ep)
        c2 == TickAdvance(c1)
    IN  TickModelled(current_in_ep) /\ TickModelled(c1) /\ TickModelled(c2)

\* the standard-descriptor resolver handles the request
ResolverHandles(o) ==
    usb_desc_handle_control(o.request, o.value, o.index, o.length).ret >= 0

\* the request matches a row of the request table: bRequest b, recipient r,
\* direction bit d
MatchesRow(o) ==
    LET b == (o.request \div 256) % 256
        r == o.request % 32
        d == (o.request % 256) \div 128
    IN  \/ b = 0 /\ r \in {0, 1}
        \/ b = 0 /\ r = 2 /\ IndexEndpoint(o) \in KnownEps
        \/ b \in {1, 3} /\ r = 0 /\ o.value = 1
        \/ b \in {1, 3} /\ r = 2 /\ o.value = 0 /\ IndexEndpoint(o) \in KnownEps
        \/ b \in {5, 9} /\ r = 0
        \/ b = 11 /\ r = 1 /\ o.index = 0 /\ o.value \in {0, 1}
        \/ b = 48 /\ r = 0 /\ d = 0 /\ o.length = 6
        \/ b = 6 /\ r = 0 /\ o.value \div 256 = 15

AllEmpty(lens) == \A n \in Slots : lens[n] = 0

-----------------------------------------------------------------------------
(* C1: for every endpoint number in 1..3, a data transfer whose direction
   conflicts with the current alt_setting[0] (IN while it is 0, OUT while it
   is 1) returns STALL, whatever the halt flag and the staged lengths. *)
C1_ConflictingDirectionStalls ==
    [][ (IsData(op') /\ op'.ep \in 1..3 /\ Conflicts(op'.pid, alt[0]))
            => p'.status = "STALL" ]_vars

\* an OUT transfer on a non-halted endpoint with data staged, refused in alt 1
C1_Witness ==
    /\ IsData(op) /\ op.pid = USB_TOKEN_OUT /\ op.ep \in 1..3
    /\ alt[0] = 1
    /\ ~halted[DataEndpoint(op)]
    /\ in_data_len[op.ep - 1] > 0
    /\ p.status = "STALL"

(* C2: an IN transfer on endpoint n in 1..3 that passes gating with
   valid_len[n] > 0 returns SUCCESS with actual_length =
   min(requested_length, valid_len[n]) and sets valid_len[n] to 0; a second
   IN read on the same endpoint with no tick in between returns NOT-READY:
   no step but a tick stages data, and an IN read right after a served one
   is answered NAK. *)
C2_StagedPayloadDeliveredOnce ==
    [][ /\ \A n \in 1..3 :
             (/\ IsInRead(op', n)
              /\ ~halted[<<USB_TOKEN_IN, n>>]
              /\ alt[0] = 1
              /\ in_data_len[n - 1] > 0)
             => /\ p'.status = "SUCCESS"
                /\ p'.actual_length = Smaller(op'.size, in_data_len[n - 1])
                /\ Len(p'.data) = p'.actual_length
                /\ in_data_len'[n - 1] = 0
        /\ \A n \in 1..3 :
             (IsInRead(op, n) /\ p.status = "SUCCESS" /\ IsInRead(op', n))
             => p'.status = "NAK"
        /\ op'.kind # "in_timer"
             => \A n \in Slots : in_data_len'[n] <= in_data_len[n]
        /\ \A n \in 1..3 :
             (/\ IsInRead(op', n)
              /\ ~halted[<<USB_TOKEN_IN, n>>]
              /\ alt[0] = 1
              /\ in_data_len[n - 1] = 0)
             => p'.status = "NAK" /\ p'.actual_length = 0
      ]_vars

\* endpoint 2 served with fewer bytes than were staged, and emptied
C2_Witness ==
    /\ IsInRead(op, 2)
    /\ op.size = 64
    /\ p.status = "SUCCESS"
    /\ p.actual_length = 64
    /\ in_data_len[1] = 0

(* C3 as stated: from every reachable state, after SET_INTERFACE(interface
   0, value 1) succeeds, an IN read of endpoint 1 (not halted) issued before
   any tick runs returns NOT-READY. *)
C3_ReadAfterSetInterface1IsNotReady ==
    [][ (/\ IsSetInterface0(op) /\ op.value = 1 /\ p.status = "SUCCESS"
         /\ IsInRead(op', 1)
         /\ ~halted[<<USB_TOKEN_IN, 1>>])
            => p'.status = "NAK" ]_vars

(* C3 amended: SET_INTERFACE(interface 0, value 1) issued while
   alt_setting[0] is 0 succeeds and leaves every staged length 0, and an IN
   read of endpoint 1 (not halted) issued right after a successful
   SET_INTERFACE(1) that left endpoint 1's staging empty returns NOT-READY;
   issued while alt_setting[0] is already 1, the request keeps the staged
   lengths. *)
C3_ReadAfterEnteringAlt1IsNotReady ==
    [][ /\ (IsSetInterface0(op') /\ op'.value = 1 /\ alt[0] = 0)
             => /\ p'.status = "SUCCESS"
                /\ alt'[0] = 1
                /\ AllEmpty(in_data_len')
        /\ (IsSetInterface0(op') /\ op'.value = 1 /\ alt[0] = 1)
             => in_data_len' = in_data_len
        /\ (/\ IsSetInterface0(op) /\ op.value = 1 /\ p.status = "SUCCESS"
            /\ in_data_len[0] = 0
            /\ IsInRead(op', 1)
            /\ ~halted[<<USB_TOKEN_IN, 1>>])
             => p'.status = "NAK"
      ]_vars

\* alt 1 entered again after endpoint 1 had been staged: nothing is staged now
C3_Witness ==
    /\ IsSetInterface0(op) /\ op.value = 1 /\ p.status = "SUCCESS"
    /\ alt[0] = 1
    /\ in_data[0] # Zeroed
    /\ AllEmpty(in_data_len)
    /\ ~halted[<<USB_TOKEN_IN, 1>>]

(* C4: reset(), from every reachable state, leaves address = 0,
   configuration = 0, remote_wakeup_enabled = false, alt_setting[0] = 0,
   valid_len = 0 for all three staging buffers, and the IN timer not
   pending. *)
C4_ResetClearsState ==
    [][ op'.kind = "reset"
            => /\ addr' = 0
               /\ configuration' = 0
               /\ remote_wakeup' = 0
               /\ alt'[0] = 0
               /\ AllEmpty(in_data_len')
               /\ ~in_timer_pending' ]_vars

\* a reset of a device that had been staging IN data
C4_Witness ==
    /\ op.kind = "reset"
    /\ current_in_ep >= 2
    /\ addr = 0 /\ configuration = 0 /\ remote_wakeup = 0
    /\ alt[0] = 0
    /\ AllEmpty(in_data_len)
    /\ ~in_timer_pending

(* C5: a Periodic IN Producer tick that was scheduled before a reset() (or
   before SET_INTERFACE to alt 0) and runs afterwards while alt_setting[0] =
   0 stages no data: every valid_len stays 0 and no buffer is written,
   because the tick handler re-checks alt_setting[0] when it runs. *)
C5_LateTickStagesNothing ==
    [][ (op'.kind = "in_timer" /\ alt[0] = 0)
            => /\ AllEmpty(in_data_len)
               /\ AllEmpty(in_data_len')
               /\ in_data' = in_data
               /\ current_in_ep' = current_in_ep ]_vars

\* the callback of an expiry dispatched while alt 1 was selected has run in alt 0
C5_Witness ==
    /\ op.kind = "in_timer"
    /\ alt[0] = 0
    /\ current_in_ep > 0
    /\ AllEmpty(in_data_len)

(* C6: with the cursor at 0 and alt_setting[0] = 1, three consecutive ticks
   stage endpoint 1, then 2, then 3, with valid_len 64, 1024 and 1024; each
   of these ticks changes valid_len and payload of exactly one endpoint and
   advances the cursor by one. *)
C6_FirstThreeTicksRoundRobin ==
    [][ (op'.kind = "in_timer" /\ alt[0] = 1 /\ current_in_ep \in 0..2)
            => LET n == current_in_ep
               IN  /\ in_data_len'[n] = <<64, 1024, 1024>>[n + 1]
                   /\ in_data_len'[n] # in_data_len[n]
                   /\ InDataBuf(n, in_data'[n]) # InDataBuf(n, in_data[n])
                   /\ InDataBuf(n, in_data'[n])[0] = n + 1
                   /\ \A m \in Slots \ {n} :
                        /\ in_data_len'[m] = in_data_len[m]
                        /\ InDataBuf(m, in_data'[m]) = InDataBuf(m, in_data[m])
                   /\ current_in_ep' = current_in_ep + 1 ]_vars

\* the third tick has run and nothing was read: all three endpoints are staged
C6_Witness ==
    /\ op.kind = "in_timer"
    /\ alt[0] = 1
    /\ current_in_ep = 3
    /\ in_data_len = [n \in Slots |-> <<64, 1024, 1024>>[n + 1]]

(* C7: SET_INTERFACE on interface 0 with a value outside {0,1} fails with
   STALL and leaves alt_setting[0], the staged lengths and the IN timer's
   armed state unchanged; alt_setting[0] is in {0,1} in every reachable
   state. *)
C7_BadAlternateRejected ==
    /\ [](alt[0] \in {0, 1})
    /\ [][ (IsSetInterface0(op') /\ op'.value \notin {0, 1})
             => /\ p'.status = "STALL"
                /\ alt' = alt
                /\ in_data_len' = in_data_len
                /\ in_timer_pending' = in_timer_pending
                /\ in_tick_queued' = in_tick_queued ]_vars

\* value 2 refused while alt 1 is selected, data is staged and the timer armed
C7_Witness ==
    /\ IsSetInterface0(op) /\ op.value = 2
    /\ p.status = "STALL"
    /\ alt[0] = 1
    /\ in_data_len[0] > 0
    /\ in_timer_pending

(* C8: from a successful SET_FEATURE(ENDPOINT_HALT) on an endpoint until the
   next CLEAR_FEATURE(ENDPOINT_HALT) on it, every data transfer on that
   endpoint returns STALL, whatever the alternate setting, intervening
   SET_INTERFACE requests, ticks and staged data, and the STALL leaves the
   staged data unconsumed: the request sets the flag, only CLEAR_FEATURE on
   that endpoint takes it back, and a transfer on a flagged endpoint
   stalls. *)
C8_HaltedEndpointStalls ==
    [][ /\ (IsSetHalt(op') /\ IndexEndpoint(op') \in KnownEps)
             => p'.status = "SUCCESS" /\ halted'[IndexEndpoint(op')]
        /\ \A e \in KnownEps :
             (halted[e] /\ ~halted'[e])
             => IsClearHalt(op') /\ IndexEndpoint(op') = e
        /\ (IsData(op') /\ halted[DataEndpoint(op')])
             => /\ p'.status = "STALL"
                /\ p'.actual_length = 0
                /\ in_data_len' = in_data_len
                /\ in_data' = in_data ]_vars

\* an IN read of halted endpoint 1 in alt 1 with data staged: stalled, data kept
C8_Witness ==
    /\ IsInRead(op, 1)
    /\ halted[<<USB_TOKEN_IN, 1>>]
    /\ alt[0] = 1
    /\ in_data_len[0] > 0
    /\ p.status = "STALL"

(* C9: for every endpoint the lookup knows, GET_STATUS(endpoint) returns 2
   bytes whose bit 0 is the endpoint's halt flag: 1 after
   SET_FEATURE(ENDPOINT_HALT) on it, 0 after CLEAR_FEATURE(ENDPOINT_HALT);
   neither request changes the halt flag of another (number, direction)
   pair; GET_STATUS on an unknown endpoint fails with STALL. *)
C9_GetStatusReportsHalt ==
    [][ /\ (IsGetStatusEp(op') /\ IndexEndpoint(op') \in KnownEps)
             => /\ p'.status = "SUCCESS"
                /\ p'.actual_length = 2
                /\ Len(p'.data) = 2
                /\ p'.data[1] % 2 = (IF halted[IndexEndpoint(op')] THEN 1 ELSE 0)
                /\ halted' = halted
        /\ (IsGetStatusEp(op') /\ IndexEndpoint(op') \notin KnownEps)
             => p'.status = "STALL" /\ p'.actual_length = 0
        /\ (IsSetHalt(op) /\ p.status = "SUCCESS"
            /\ IsGetStatusEp(op') /\ op'.index = op.index)
             => p'.data[1] % 2 = 1
        /\ (IsClearHalt(op) /\ p.status = "SUCCESS"
            /\ IsGetStatusEp(op') /\ op'.index = op.index)
             => p'.data[1] % 2 = 0
        /\ ((IsSetHalt(op') \/ IsClearHalt(op')) /\ IndexEndpoint(op') \in KnownEps)
             => /\ halted'[IndexEndpoint(op')] = IsSetHalt(op')
                /\ \A e \in KnownEps \ {IndexEndpoint(op')} : halted'[e] = halted[e]
      ]_vars

\* GET_STATUS right after SET_FEATURE(ENDPOINT_HALT) on endpoint 1 IN, while
\* endpoint 2 OUT is not halted
C9_Witness ==
    /\ IsGetStatusEp(op) /\ IndexEndpoint(op) = <<USB_TOKEN_IN, 1>>
    /\ p.status = "SUCCESS"
    /\ p.data = <<1, 0>>
    /\ ~halted[<<USB_TOKEN_OUT, 2>>]

\* the 22 bytes of the BOS descriptor as the specification lists them
Bos22 ==
    << 5, 15, 22, 0, 2,
       7, 16, 2, 2, 0, 0, 0,
       10, 16, 3, 0, 14, 0, 1, 10, 255, 7 >>

(* C10: GET_DESCRIPTOR(BOS) with buffer length L returns the first
   min(L, 22) bytes of the fixed 22-byte BOS descriptor, in order, with
   actual_length = min(L, 22) and a non-error status; never more than 22
   bytes and never bytes outside the descriptor. *)
C10_BosClippedToBuffer ==
    [][ IsGetBos(op')
            => /\ p'.status = "SUCCESS"
               /\ p'.actual_length = Smaller(op'.length, 22)
               /\ p'.data = SubSeq(Bos22, 1, Smaller(op'.length, 22))
               /\ UNCHANGED dev_vars ]_vars

\* a 5-byte buffer got the 5 header bytes
C10_Witness ==
    /\ IsGetBos(op) /\ op.length = 5
    /\ p.status = "SUCCESS"
    /\ p.actual_length = 5
    /\ p.data = <<5, 15, 22, 0, 2>>

(* C11 as stated: the BOS descriptor is served only at SuperSpeed: a
   GET_DESCRIPTOR(BOS) request that arrives while the negotiated link speed
   is full or high speed is not answered with bytes of the BOS descriptor. *)
C11_BosOnlyAtSuperSpeed ==
    [][ (IsGetBos(op') /\ op'.length > 0 /\ speed # "SUPER")
            => ~(/\ p'.status = "SUCCESS"
                 /\ p'.actual_length > 0
                 /\ p'.data = SubSeq(Bos22, 1, p'.actual_length)) ]_vars

(* C12: every control transfer that the standard-descriptor resolver does
   not handle and that matches no row of the request table ends with status
   STALL and actual_length 0 and leaves the whole device state unchanged:
   address, configuration, remote wakeup, alternate setting, halt flags,
   staged lengths and payloads, cursor and both timers; and no control
   transfer that ends STALL has changed any of them. *)
C12_UnmatchedControlStalls ==
    [][ /\ (op'.kind = "control" /\ ~ResolverHandles(op') /\ ~MatchesRow(op'))
             => /\ p'.status = "STALL"
                /\ p'.actual_length = 0
                /\ UNCHANGED dev_vars
        /\ (op'.kind = "control" /\ p'.status = "STALL")
             => UNCHANGED dev_vars
      ]_vars

\* a request outside the table refused by a device that is addressed,
\* configured, in alt 1 with data staged, its IN timer armed, remote wakeup on
\* and an endpoint halted
C12_Witness ==
    /\ op.kind = "control" /\ ~ResolverHandles(op) /\ ~MatchesRow(op)
    /\ p.status = "STALL"
    /\ addr # 0 /\ configuration # 0 /\ remote_wakeup = 1
    /\ alt[0] = 1 /\ in_data_len[0] > 0 /\ in_timer_pending
    /\ \E e \in KnownEps : halted[e]

(* C13: a SET_ADDRESS request addressed to the device is accepted and sets
   the address to the request's value, and a SET_CONFIGURATION request
   addressed to the device is accepted and sets the configuration to the
   request's value; neither ends STALL, and neither changes anything else of
   the device state. *)
C13_SetAddressAndConfigurationAccepted ==
    [][ /\ IsSetAddress(op')
             => /\ p'.status = "SUCCESS"
                /\ addr' = op'.value
                /\ configuration' = configuration
        /\ IsSetConfiguration(op')
             => /\ p'.status = "SUCCESS"
                /\ configuration' = op'.value
                /\ addr' = addr
        /\ (IsSetAddress(op') \/ IsSetConfiguration(op'))
             => UNCHANGED <<alt, in_data, in_data_len, current_in_ep, halted,
                            remote_wakeup, in_timer_pending, in_tick_queued,
                            wakeup_timer_pending, speed, port>>
      ]_vars

\* SET_CONFIGURATION(1) accepted by a device that had been given address 5
C13_Witness ==
    /\ IsSetConfiguration(op) /\ op.value = 1
    /\ p.status = "SUCCESS"
    /\ configuration = 1
    /\ addr = 5

(* C14: a tick of the wakeup scheduler emits a wakeup signal exactly when
   remote wakeup is enabled and the device is attached at the time of the
   tick, and nothing but a tick emits one.  Remote wakeup is off after
   realize, CLEAR_FEATURE(REMOTE_WAKEUP) and reset() turn it off, and only
   SET_FEATURE(REMOTE_WAKEUP) turns it on: so no signal is emitted before the
   first SET_FEATURE(REMOTE_WAKEUP), nor between a CLEAR_FEATURE or reset and
   the next SET_FEATURE. *)
C14_WakeupOnlyWhenEnabledAndAttached ==
    /\ remote_wakeup = 0
    /\ [][ /\ IsWakeupTick(op') => (op'.wakeup <=> (remote_wakeup = 1 /\ port))
           /\ op'.wakeup => IsWakeupTick(op')
           /\ (IsClearRemoteWakeup(op') \/ op'.kind = "reset") => remote_wakeup' = 0
           /\ IsSetRemoteWakeup(op') => remote_wakeup' = 1
           /\ remote_wakeup' = 1 => (remote_wakeup = 1 \/ IsSetRemoteWakeup(op'))
         ]_vars

\* a tick that signalled the host of a high-speed port
C14_Witness ==
    /\ IsWakeupTick(op) /\ op.wakeup
    /\ remote_wakeup = 1 /\ port
    /\ speed = "HIGH"

(* C15: after realize the wakeup scheduler's timer is pending in every
   reachable state: a tick re-arms it whether or not it emitted a signal,
   and no reset, SET_INTERFACE, other control transfer, data transfer,
   attach or detach cancels it; under fair firing of the timer, wakeup ticks
   recur infinitely often. *)
C15_WakeupTimerAlwaysPending ==
    /\ []wakeup_timer_pending
    /\ []<>IsWakeupTick(op)

\* a tick that emitted no signal (remote wakeup was reset away) left the timer armed
C15_Witness ==
    /\ IsWakeupTick(op) /\ ~op.wakeup
    /\ remote_wakeup = 0
    /\ current_in_ep > 0
    /\ wakeup_timer_pending

(* C16: while alt_setting[0] stays 1 and no reset occurs, every tick
   refreshes the one endpoint the cursor points at and moves the cursor to
   the next endpoint, and nothing else moves the cursor, so every window of
   three consecutive ticks refreshes each of endpoints 1..3 exactly once, in
   round-robin order: every staged payload was written by one of the last
   three ticks, the one of its own endpoint.  Under fair firing of the IN
   timer, a host that keeps retrying a NOT-READY IN read of an endpoint that
   is not halted eventually gets SUCCESS, unless the alternate setting is
   left first. *)
C16_RoundRobinRefresh ==
    /\ [][ /\ IsActiveTick(op', alt[0])
                => /\ in_data_len'[current_in_ep % 3] > 0
                   /\ in_data'[current_in_ep % 3] = Filled(current_in_ep)
                   /\ \A m \in Slots \ {current_in_ep % 3} :
                        in_data_len'[m] = in_data_len[m] /\ in_data'[m] = in_data[m]
                   /\ current_in_ep' % 3 = ((current_in_ep % 3) + 1) % 3
           /\ ~IsActiveTick(op', alt[0]) => current_in_ep' = current_in_ep
         ]_vars
    /\ \A n \in 1..3 :
          (IsInRead(op, n) /\ p.status = "NAK" /\ TickAhead)
              ~> \/ IsInRead(op, n) /\ p.status = "SUCCESS"
                 \/ alt[0] # 1
                 \/ halted[<<USB_TOKEN_IN, n>>]

-----------------------------------------------------------------------------
\* C17: the round-robin cursor of the Periodic IN Producer takes only the
\* values 0, 1 and 2 in every reachable state, after any number of ticks.
C17_CursorCyclesZeroToTwo == current_in_ep \in 0..2

-----------------------------------------------------------------------------
\* a tick of the Periodic IN Producer that runs in alternate setting a
IsIdleTick(o, a) == o.kind = "in_timer" /\ a # 1

\* C18: a tick of the Periodic IN Producer that runs while alt[0] # 1 is a
\* no-op: it stages no payload, changes no valid length, does not advance the
\* cursor and does not re-arm the IN timer.
C18_IdleTickIsNoOp ==
    [][ IsIdleTick(op', alt[0])
            => /\ in_data' = in_data
               /\ in_data_len' = in_data_len
               /\ current_in_ep' = current_in_ep
               /\ in_timer_pending' = in_timer_pending
      ]_vars

-----------------------------------------------------------------------------
\* C19: a data transfer never changes the staging of an endpoint other than
\* the one it addresses.  A transfer that ends in STALL or NAK and every OUT
\* transfer leave all valid lengths and payloads unchanged, a successful IN
\* read on endpoint n changes only the valid length of n, and no data transfer
\* changes alt, the halt flags, the cursor, the address, the configuration or
\* remote_wakeup.
C19_DataTransferFrame ==
    [][ IsData(op')
            => /\ in_data' = in_data
               /\ \/ p'.status # USB_RET_SUCCESS
                  \/ op'.pid = USB_TOKEN_OUT
                  => in_data_len' = in_data_len
               /\ \A m \in Slots : m # op'.ep - 1 => in_data_len'[m] = in_data_len[m]
               /\ alt' = alt
               /\ halted' = halted
               /\ current_in_ep' = current_in_ep
               /\ addr' = addr
               /\ configuration' = configuration
               /\ remote_wakeup' = remote_wakeup
      ]_vars

-----------------------------------------------------------------------------
\* C20: in every reachable state alt[0] = 0 implies that all three staged
\* valid lengths are 0: no sequence of SET_INTERFACE, reset, data transfers and
\* timer ticks leaves IN data staged while the device is in alternate setting 0.
C20_AltZeroNothingStaged == alt[0] = 0 => AllEmpty(in_data_len)

\* a reset has taken the device back to alternate setting 0 after all three
\* endpoints had been staged
C20_Witness ==
    /\ op.kind = "reset"
    /\ alt[0] = 0
    /\ \A m \in Slots : in_data[m] # Zeroed
    /\ AllEmpty(in_data_len)

-----------------------------------------------------------------------------
\* C21: in every reachable state the IN timer is pending if and only if
\* alt[0] = 1: it is armed by SET_INTERFACE(1), re-armed by each tick, disarmed
\* by SET_INTERFACE(0) and by reset, and is never pending while alt[0] = 0.  A
\* timer whose callback has been dispatched and has yet to run and re-arm it
\* counts as pending in alternate setting 1.
C21_InTimerPendingIffAltOne ==
    /\ alt[0] = 1 => in_timer_pending \/ in_tick_queued
    /\ alt[0] # 1 => ~in_timer_pending

-----------------------------------------------------------------------------
\* the step is an IN transfer that got past the halt test and the gate, and so
\* read s->in_data_len[idx]
IsInAccess(o, pkt) ==
    IsData(o) /\ o.pid = USB_TOKEN_IN /\ pkt.status # USB_RET_STALL

\* the slot index an IN transfer uses is one of the array's
DataSlotInRange == IsInAccess(op', p') => InSlot(op'.ep) \in Slots

\* the slot index an active tick uses is one of the array's
TickSlotInRange == IsActiveTick(op', alt[0]) => TickEp(current_in_ep) - 1 \in Slots

\* C22: every access to the IN staging buffers and their length counters uses
\* a slot index in 0..2, in handle_data for an IN transfer on any endpoint
\* number the host can deliver and in the Periodic IN Producer for every value
\* the tick counter can reach, including after it wraps.
C22_SlotIndexInRange == [][DataSlotInRange /\ TickSlotInRange]_vars

-----------------------------------------------------------------------------
\* C23: reset leaves every endpoint halt flag and the round-robin cursor
\* unchanged.  An endpoint halted before a reset still stalls data transfers
\* after it, until CLEAR_FEATURE(ENDPOINT_HALT) on that endpoint; and as only
\* an active tick moves the cursor, the first endpoint staged after alternate
\* setting 1 is entered again is the one the cursor pointed at before the
\* reset, not necessarily endpoint 1.
C23_ResetKeepsHaltAndCursor ==
    [][ /\ op'.kind = "reset"
             => halted' = halted /\ current_in_ep' = current_in_ep
        /\ \A e \in KnownEps :
             (halted[e] /\ ~halted'[e])
             => IsClearHalt(op') /\ IndexEndpoint(op') = e
        /\ (IsData(op') /\ halted[DataEndpoint(op')]) => p'.status = "STALL"
        /\ current_in_ep' # current_in_ep => IsActiveTick(op', alt[0])
        /\ IsActiveTick(op', alt[0])
             => /\ in_data_len'[current_in_ep % 3] > 0
                /\ \A m \in Slots \ {current_in_ep % 3} :
                     in_data_len'[m] = in_data_len[m]
      ]_vars

\* a reset of a device whose endpoint 1 IN is halted and whose cursor points
\* at endpoint 2: both are as before
C23_Witness ==
    /\ op.kind = "reset"
    /\ halted[<<USB_TOKEN_IN, 1>>]
    /\ current_in_ep = 1
    /\ in_data[0] # Zeroed

====
